---- MODULE Spec2Model ----
(***************************************************************************)
(* DeterministicFiniteStateMachine of src/src/state_machine.py: the state  *)
(* table, the transition table with its wildcard fallback, the handle      *)
(* addressed callback buckets, feed / feed_many / reset and the counters.  *)
(* An engine is a record whose fields are the instance attributes of the   *)
(* class (leading underscore dropped); every method is an operator from an *)
(* engine and its arguments to the engine it leaves behind and its         *)
(* outcome, and every action installs the result of one method call.       *)
(***************************************************************************)
EXTENDS Integers, Sequences, FiniteSets, TLC

\* ------------------------------------------------------------------ values

\* Python's None: the default of _initial_state / _current_state, the
\* default of dict.get, the default payload; it is also a hashable value a
\* client may register as a state or bind as a callback.
None == "None"

\* The wildcard marker, Python's Ellipsis (...).
Wildcard == "..."

\* A value that is not an instance of Hashable.
Unhashable == "unhashable"

\* State identifiers clients register.
States == {"x", "a", None}

\* Tokens used as transition keys and tokens fed.
KeyTokens == {"a", Wildcard}
FeedTokens == {"a", "z", Wildcard, Unhashable}

\* Payloads a client passes to feed.
Payloads == {None, "p"}

\* What a bound callback does when it is called with the event: returns,
\* raises, or calls reset() on the engine it is bound to; None is the value
\* None bound in place of a callable.
CallbackKinds == {"ok", "raise", "reset", None}

\* Bounds of the exploration.
MaxFeeds == 2
MaxHandles == 2
MaxBuildHandles == 1
MaxTransitions == 1
MaxLen == 2
MaxString == 4

\* ------------------------------------------------------------------ dicts

EmptyDict == [k \in {} |-> None]

Get(d, k) == IF k \in DOMAIN d THEN d[k] ELSE None

Put(d, k, v) == [j \in (DOMAIN d) \cup {k} |-> IF j = k THEN v ELSE d[j]]

\* A handle -> callback dict in insertion order: a sequence of bindings.
Binding(h, cb) == [handle |-> h, callback |-> cb]

Handles(callbacks) == {callbacks[i].handle : i \in 1..Len(callbacks)}

RECURSIVE Without(_, _)
Without(callbacks, h) ==
    IF callbacks = <<>> THEN <<>>
    ELSE IF Head(callbacks).handle = h THEN Without(Tail(callbacks), h)
    ELSE <<Head(callbacks)>> \o Without(Tail(callbacks), h)

\* ------------------------------------------------------------------ engine

New(raise_flag) ==
    [is_terminal |-> EmptyDict,
     transitions |-> EmptyDict,
     exit_callbacks |-> EmptyDict,
     enter_callbacks |-> EmptyDict,
     transition_callbacks |-> EmptyDict,
     enter_termination_callbacks |-> <<>>,
     exit_termination_callbacks |-> <<>>,
     enter_initial_callbacks |-> <<>>,
     exit_initial_callbacks |-> <<>>,
     always_callbacks |-> <<>>,
     initial_state |-> None,
     current_state |-> None,
     feed_count |-> 0,
     transition_count |-> 0,
     next_handle |-> 0,
     raise_on_invalid_token |-> raise_flag]

\* The outcome of a call that is not a feed: the engine it leaves, the error
\* it raised (None when it returned) and the handle it returned (-1 when it
\* returned no handle).
Outcome(e, r) == [sm |-> e, result |-> r, handle |-> -1]

Bound(e, h) == [sm |-> e, result |-> None, handle |-> h]

\* add_state that sets the initial state and not the current state.
add_state_keeps_current(e, state, is_terminal_arg, is_initial_arg) ==
    IF state = Unhashable THEN Outcome(e, "TypeError")
    ELSE IF state \in DOMAIN e.is_terminal THEN Outcome(e, "KeyError")
    ELSE IF is_initial_arg /\ e.initial_state # None THEN Outcome(e, "ValueError")
    ELSE LET e1 == [e EXCEPT !.is_terminal = Put(@, state, is_terminal_arg)]
             e2 == IF is_initial_arg
                   THEN [e1 EXCEPT !.initial_state = state]
                   ELSE e1
         IN Outcome([e2 EXCEPT !.enter_callbacks = Put(@, state, <<>>),
                                !.exit_callbacks = Put(@, state, <<>>)], None)

\* add_state without the check for a registered state.
add_state_overwrites(e, state, is_terminal_arg, is_initial_arg) ==
    IF state = Unhashable THEN Outcome(e, "TypeError")
    ELSE IF is_initial_arg /\ e.initial_state # None THEN Outcome(e, "ValueError")
    ELSE LET e1 == [e EXCEPT !.is_terminal = Put(@, state, is_terminal_arg)]
             e2 == IF is_initial_arg
                   THEN [e1 EXCEPT !.initial_state = state, !.current_state = state]
                   ELSE e1
         IN Outcome([e2 EXCEPT !.enter_callbacks = Put(@, state, <<>>),
                                !.exit_callbacks = Put(@, state, <<>>)], None)

add_state(e, state, is_terminal_arg, is_initial_arg) ==
    IF state = Unhashable THEN Outcome(e, "TypeError")
    ELSE IF state \in DOMAIN e.is_terminal THEN Outcome(e, "KeyError")
    ELSE IF is_initial_arg /\ e.initial_state # None THEN Outcome(e, "ValueError")
    ELSE LET e1 == [e EXCEPT !.is_terminal = Put(@, state, is_terminal_arg)]
             e2 == IF is_initial_arg
                   THEN [e1 EXCEPT !.initial_state = state, !.current_state = state]
                   ELSE e1
         IN Outcome([e2 EXCEPT !.enter_callbacks = Put(@, state, <<>>),
                                !.exit_callbacks = Put(@, state, <<>>)], None)

\* _raise_on_state: the error it raises, or None.
raise_on_state(e, state) ==
    IF state = Unhashable THEN "TypeError"
    ELSE IF state \notin DOMAIN e.is_terminal THEN "KeyError"
    ELSE None

raise_on_token(token) == IF token = Unhashable THEN "TypeError" ELSE None

raise_on_transition(e, state, token) ==
    IF raise_on_state(e, state) # None THEN raise_on_state(e, state)
    ELSE IF raise_on_token(token) # None THEN raise_on_token(token)
    ELSE IF <<state, token>> \notin DOMAIN e.transitions THEN "KeyError"
    ELSE None

\* add_transition without the check for a registered transition.
add_transition_overwrites(e, exited_state, entered_state, token) ==
    IF raise_on_state(e, exited_state) # None
    THEN Outcome(e, raise_on_state(e, exited_state))
    ELSE IF raise_on_state(e, entered_state) # None
    THEN Outcome(e, raise_on_state(e, entered_state))
    ELSE Outcome([e EXCEPT
             !.transitions = Put(@, <<exited_state, token>>, entered_state),
             !.transition_callbacks = Put(@, <<exited_state, token>>, <<>>)], None)

\* add_transition without the check of the entered state.
add_transition_any_target(e, exited_state, entered_state, token) ==
    IF raise_on_state(e, exited_state) # None
    THEN Outcome(e, raise_on_state(e, exited_state))
    ELSE IF <<exited_state, token>> \in DOMAIN e.transitions
    THEN Outcome(e, "KeyError")
    ELSE Outcome([e EXCEPT
             !.transitions = Put(@, <<exited_state, token>>, entered_state),
             !.transition_callbacks = Put(@, <<exited_state, token>>, <<>>)], None)

add_transition(e, exited_state, entered_state, token) ==
    IF raise_on_state(e, exited_state) # None
    THEN Outcome(e, raise_on_state(e, exited_state))
    ELSE IF raise_on_state(e, entered_state) # None
    THEN Outcome(e, raise_on_state(e, entered_state))
    ELSE IF <<exited_state, token>> \in DOMAIN e.transitions
    THEN Outcome(e, "KeyError")
    ELSE Outcome([e EXCEPT
             !.transitions = Put(@, <<exited_state, token>>, entered_state),
             !.transition_callbacks = Put(@, <<exited_state, token>>, <<>>)], None)

\* reset that also unbinds the callbacks called on every transition.
reset_unbinds(e) ==
    [e EXCEPT !.current_state = e.initial_state,
              !.feed_count = 0,
              !.transition_count = 0,
              !.always_callbacks = <<>>]

\* reset that also restarts the handles.
reset_forgets_handles(e) ==
    [e EXCEPT !.current_state = e.initial_state,
              !.feed_count = 0,
              !.transition_count = 0,
              !.next_handle = 0]

\* reset that forgets the counters.
reset_keeps_counts(e) == [e EXCEPT !.current_state = e.initial_state]

reset(e) ==
    [e EXCEPT !.current_state = e.initial_state,
              !.feed_count = 0,
              !.transition_count = 0]

\* The properties is_terminated and is_initial.
is_terminated(e) == e.is_terminal[e.current_state]

is_initial(e) == e.current_state = e.initial_state

\* ---------------------------------------------------------------- binding

\* _bind_callback: the dict with the callback stored under the next handle.
bind_callback(e, callbacks, callback) ==
    Append(callbacks, Binding(e.next_handle, callback))

\* _unbind_callback: the error it raises, or None.
unbind_callback(callbacks, handle) ==
    IF handle \notin Handles(callbacks) THEN "KeyError" ELSE None

bind_callback_at_enter(e, state, callback) ==
    IF raise_on_state(e, state) # None THEN Outcome(e, raise_on_state(e, state))
    ELSE Bound([e EXCEPT
             !.enter_callbacks[state] = bind_callback(e, @, callback),
             !.next_handle = @ + 1], e.next_handle)

unbind_callback_at_enter(e, state, handle) ==
    IF raise_on_state(e, state) # None THEN Outcome(e, raise_on_state(e, state))
    ELSE IF unbind_callback(e.enter_callbacks[state], handle) # None
    THEN Outcome(e, unbind_callback(e.enter_callbacks[state], handle))
    ELSE Outcome([e EXCEPT !.enter_callbacks[state] = Without(@, handle)], None)

bind_callback_at_exit(e, state, callback) ==
    IF raise_on_state(e, state) # None THEN Outcome(e, raise_on_state(e, state))
    ELSE Bound([e EXCEPT
             !.exit_callbacks[state] = bind_callback(e, @, callback),
             !.next_handle = @ + 1], e.next_handle)

unbind_callback_at_exit(e, state, handle) ==
    IF raise_on_state(e, state) # None THEN Outcome(e, raise_on_state(e, state))
    ELSE IF unbind_callback(e.exit_callbacks[state], handle) # None
    THEN Outcome(e, unbind_callback(e.exit_callbacks[state], handle))
    ELSE Outcome([e EXCEPT !.exit_callbacks[state] = Without(@, handle)], None)

bind_callback_at_transition(e, state, token, callback) ==
    IF raise_on_transition(e, state, token) # None
    THEN Outcome(e, raise_on_transition(e, state, token))
    ELSE Bound([e EXCEPT
             !.transition_callbacks[<<state, token>>] = bind_callback(e, @, callback),
             !.next_handle = @ + 1], e.next_handle)

\* Line 415 calls _raise_on_transition() without its two arguments, which
\* raises TypeError before the bucket is touched.
unbind_callback_at_transition(e, state, token, handle) ==
    Outcome(e, "TypeError")

bind_callback_at_enter_termination(e, callback) ==
    Bound([e EXCEPT
        !.enter_termination_callbacks = bind_callback(e, @, callback),
        !.next_handle = @ + 1], e.next_handle)

unbind_callback_at_enter_termination(e, handle) ==
    IF unbind_callback(e.enter_termination_callbacks, handle) # None
    THEN Outcome(e, unbind_callback(e.enter_termination_callbacks, handle))
    ELSE Outcome([e EXCEPT !.enter_termination_callbacks = Without(@, handle)], None)

bind_callback_at_exit_termination(e, callback) ==
    Bound([e EXCEPT
        !.exit_termination_callbacks = bind_callback(e, @, callback),
        !.next_handle = @ + 1], e.next_handle)

unbind_callback_at_exit_termination(e, handle) ==
    IF unbind_callback(e.exit_termination_callbacks, handle) # None
    THEN Outcome(e, unbind_callback(e.exit_termination_callbacks, handle))
    ELSE Outcome([e EXCEPT !.exit_termination_callbacks = Without(@, handle)], None)

bind_callback_at_enter_initial(e, callback) ==
    Bound([e EXCEPT
        !.enter_initial_callbacks = bind_callback(e, @, callback),
        !.next_handle = @ + 1], e.next_handle)

unbind_callback_at_enter_initial(e, handle) ==
    IF unbind_callback(e.enter_initial_callbacks, handle) # None
    THEN Outcome(e, unbind_callback(e.enter_initial_callbacks, handle))
    ELSE Outcome([e EXCEPT !.enter_initial_callbacks = Without(@, handle)], None)

bind_callback_at_exit_initial(e, callback) ==
    Bound([e EXCEPT
        !.exit_initial_callbacks = bind_callback(e, @, callback),
        !.next_handle = @ + 1], e.next_handle)

unbind_callback_at_exit_initial(e, handle) ==
    IF unbind_callback(e.exit_initial_callbacks, handle) # None
    THEN Outcome(e, unbind_callback(e.exit_initial_callbacks, handle))
    ELSE Outcome([e EXCEPT !.exit_initial_callbacks = Without(@, handle)], None)

bind_callback_always(e, callback) ==
    Bound([e EXCEPT
        !.always_callbacks = bind_callback(e, @, callback),
        !.next_handle = @ + 1], e.next_handle)

unbind_callback_always(e, handle) ==
    IF unbind_callback(e.always_callbacks, handle) # None
    THEN Outcome(e, unbind_callback(e.always_callbacks, handle))
    ELSE Outcome([e EXCEPT !.always_callbacks = Without(@, handle)], None)

\* ------------------------------------------------------------------- feed

\* What feed raises, and what a raising callback raises.
NoInitialState == "RuntimeError"
InvalidToken == "ValueError: Invalid token"
PayloadCountMismatch == "ValueError: zip()"
CallbackError == "CallbackError"

\* An event that does not carry the payload.
TransitionEvent_no_payload(entered_state, exited_state, token, is_terminal_arg, feed_count_arg, transition_count_arg, payload) ==
    [entered_state |-> entered_state,
     exited_state |-> exited_state,
     token |-> token,
     entered_state_is_terminal |-> is_terminal_arg,
     feed_count |-> feed_count_arg,
     transition_count |-> transition_count_arg,
     payload |-> None]

TransitionEvent(entered_state, exited_state, token, is_terminal_arg, feed_count_arg, transition_count_arg, payload) ==
    [entered_state |-> entered_state,
     exited_state |-> exited_state,
     token |-> token,
     entered_state_is_terminal |-> is_terminal_arg,
     feed_count |-> feed_count_arg,
     transition_count |-> transition_count_arg,
     payload |-> payload]

\* The global buckets chained whatever their conditions.
RECURSIVE ConditionalBuckets_unguarded(_, _)
ConditionalBuckets_unguarded(conditions, buckets) ==
    IF buckets = <<>> THEN <<>>
    ELSE Head(buckets) \o ConditionalBuckets_unguarded(Tail(conditions), Tail(buckets))

\* The four guarded global buckets of _callback_generator, in zip order.
RECURSIVE ConditionalBuckets(_, _)
ConditionalBuckets(conditions, buckets) ==
    IF conditions = <<>> THEN <<>>
    ELSE (IF Head(conditions) THEN Head(buckets) ELSE <<>>)
         \o ConditionalBuckets(Tail(conditions), Tail(buckets))

\* The generator with the enter bucket chained before the transition bucket
\* and the enter-terminal bucket before the exit-initial bucket.
callback_generator_swapped(e, next_state, token) ==
    e.always_callbacks
    \o e.exit_callbacks[e.current_state]
    \o e.enter_callbacks[next_state]
    \o e.transition_callbacks[<<e.current_state, token>>]
    \o ConditionalBuckets(
         <<e.is_terminal[e.current_state],
           e.is_terminal[next_state],
           e.current_state = e.initial_state,
           next_state = e.initial_state>>,
         <<e.exit_termination_callbacks,
           e.enter_termination_callbacks,
           e.exit_initial_callbacks,
           e.enter_initial_callbacks>>)

callback_generator(e, next_state, token) ==
    e.always_callbacks
    \o e.exit_callbacks[e.current_state]
    \o e.transition_callbacks[<<e.current_state, token>>]
    \o e.enter_callbacks[next_state]
    \o ConditionalBuckets(
         <<e.is_terminal[e.current_state],
           e.current_state = e.initial_state,
           e.is_terminal[next_state],
           next_state = e.initial_state>>,
         <<e.exit_termination_callbacks,
           e.exit_initial_callbacks,
           e.enter_termination_callbacks,
           e.enter_initial_callbacks>>)

\* A dispatch that swallows what a callback raises and goes on.
RECURSIVE Dispatch_swallow(_, _, _, _, _)
Dispatch_swallow(e, callbacks, event, calls, resets) ==
    IF callbacks = <<>>
    THEN [sm |-> e, raised |-> FALSE, calls |-> calls, resets |-> resets]
    ELSE LET c == Head(callbacks)
             called == Append(calls, [handle |-> c.handle, event |-> event])
         IN IF c.callback = None
            THEN Dispatch_swallow(e, Tail(callbacks), event, calls, resets)
            ELSE IF c.callback = "reset"
            THEN Dispatch_swallow(reset(e), Tail(callbacks), event, called, TRUE)
            ELSE Dispatch_swallow(e, Tail(callbacks), event, called, resets)

\* The list comprehension of feed (lines 620-624): every callback of the
\* generator that is not None is called with the event, in order, until one
\* raises.  calls is the log of the calls made, resets tells whether one of
\* them called reset().
RECURSIVE Dispatch(_, _, _, _, _)
Dispatch(e, callbacks, event, calls, resets) ==
    IF callbacks = <<>>
    THEN [sm |-> e, raised |-> FALSE, calls |-> calls, resets |-> resets]
    ELSE LET c == Head(callbacks)
             called == Append(calls, [handle |-> c.handle, event |-> event])
         IN IF c.callback = None
            THEN Dispatch(e, Tail(callbacks), event, calls, resets)
            ELSE IF c.callback = "raise"
            THEN [sm |-> e, raised |-> TRUE, calls |-> called, resets |-> resets]
            ELSE IF c.callback = "reset"
            THEN Dispatch(reset(e), Tail(callbacks), event, called, TRUE)
            ELSE Dispatch(e, Tail(callbacks), event, called, resets)

\* The outcome of one feed: the engine it leaves, what it returned or
\* raised, and the record of the call (the state it was called in, its
\* arguments, the callbacks it called).
FeedOutcome(e, exited, token, payload, result, calls, resets) ==
    [sm |-> e, exited |-> exited, token |-> token, payload |-> payload,
     result |-> result, calls |-> calls, resets |-> resets]

\* The matched branch that takes the transition back out of the count when
\* a callback raises.
commit_uncounted(e, token, token_, payload) ==
    LET e2 == [e EXCEPT !.transition_count = @ + 1]
        next_state == e2.transitions[<<e2.current_state, token_>>]
        transition_event ==
            TransitionEvent(next_state, e2.current_state, token_,
                            e2.is_terminal[next_state], e2.feed_count,
                            e2.transition_count, payload)
        run == Dispatch(e2, callback_generator(e2, next_state, token_),
                        transition_event, <<>>, FALSE)
    IN IF run.raised
       THEN FeedOutcome([run.sm EXCEPT !.transition_count =
                                           IF @ > 0 THEN @ - 1 ELSE 0],
                        e.current_state, token, payload,
                        CallbackError, run.calls, run.resets)
       ELSE FeedOutcome([run.sm EXCEPT !.current_state = next_state],
                        e.current_state, token, payload,
                        "True", run.calls, run.resets)

\* The matched branch that leaves the state where a callback's reset() put it.
commit_keeps_reset(e, token, token_, payload) ==
    LET e2 == [e EXCEPT !.transition_count = @ + 1]
        next_state == e2.transitions[<<e2.current_state, token_>>]
        transition_event ==
            TransitionEvent(next_state, e2.current_state, token_,
                            e2.is_terminal[next_state], e2.feed_count,
                            e2.transition_count, payload)
        run == Dispatch(e2, callback_generator(e2, next_state, token_),
                        transition_event, <<>>, FALSE)
    IN IF run.raised
       THEN FeedOutcome(run.sm, e.current_state, token, payload,
                        CallbackError, run.calls, run.resets)
       ELSE FeedOutcome(IF run.resets
                        THEN run.sm
                        ELSE [run.sm EXCEPT !.current_state = next_state],
                        e.current_state, token, payload,
                        "True", run.calls, run.resets)

\* The matched branch with the fed token, not the resolved key, in the event.
commit_fed_token(e, token, token_, payload) ==
    LET e2 == [e EXCEPT !.transition_count = @ + 1]
        next_state == e2.transitions[<<e2.current_state, token_>>]
        transition_event ==
            TransitionEvent(next_state, e2.current_state, token,
                            e2.is_terminal[next_state], e2.feed_count,
                            e2.transition_count, payload)
        run == Dispatch(e2, callback_generator(e2, next_state, token_),
                        transition_event, <<>>, FALSE)
    IN IF run.raised
       THEN FeedOutcome(run.sm, e.current_state, token, payload,
                        CallbackError, run.calls, run.resets)
       ELSE FeedOutcome([run.sm EXCEPT !.current_state = next_state],
                        e.current_state, token, payload,
                        "True", run.calls, run.resets)

\* The matched branch with the state updated before the dispatch.
commit_state_first(e, token, token_, payload) ==
    LET next_state == e.transitions[<<e.current_state, token_>>]
        e2 == [e EXCEPT !.transition_count = @ + 1]
        transition_event ==
            TransitionEvent(next_state, e2.current_state, token_,
                            e2.is_terminal[next_state], e2.feed_count,
                            e2.transition_count, payload)
        run == Dispatch([e2 EXCEPT !.current_state = next_state],
                        callback_generator(e2, next_state, token_),
                        transition_event, <<>>, FALSE)
    IN FeedOutcome(run.sm, e.current_state, token, payload,
                   IF run.raised THEN CallbackError ELSE "True",
                   run.calls, run.resets)

\* Lines 612-627: the matched branch of feed, e already counting the feed.
commit(e, token, token_, payload) ==
    LET e2 == [e EXCEPT !.transition_count = @ + 1]
        next_state == e2.transitions[<<e2.current_state, token_>>]
        transition_event ==
            TransitionEvent(next_state, e2.current_state, token_,
                            e2.is_terminal[next_state], e2.feed_count,
                            e2.transition_count, payload)
        run == Dispatch(e2, callback_generator(e2, next_state, token_),
                        transition_event, <<>>, FALSE)
    IN IF run.raised
       THEN FeedOutcome(run.sm, e.current_state, token, payload,
                        CallbackError, run.calls, run.resets)
       ELSE FeedOutcome([run.sm EXCEPT !.current_state = next_state],
                        e.current_state, token, payload,
                        "True", run.calls, run.resets)

\* feed that counts a feed only when its token matched nothing.
feed_counts_misses(e, token, payload) ==
    IF e.initial_state = None
    THEN FeedOutcome(e, e.current_state, token, payload, NoInitialState, <<>>, FALSE)
    ELSE IF raise_on_token(token) # None
    THEN FeedOutcome(e, e.current_state, token, payload,
                     raise_on_token(token), <<>>, FALSE)
    ELSE LET e1 == [e EXCEPT !.feed_count = @ + 1]
             first == Get(e1.transitions, <<e1.current_state, token>>)
             token_ == IF first = None THEN Wildcard ELSE token
             next_state == IF first = None
                           THEN Get(e1.transitions, <<e1.current_state, token_>>)
                           ELSE first
         IN IF next_state = None
            THEN FeedOutcome(e1, e.current_state, token, payload,
                             IF e1.raise_on_invalid_token
                             THEN InvalidToken ELSE "False", <<>>, FALSE)
            ELSE commit(e, token, token_, payload)

\* feed that counts a feed only once its token has matched.
feed_counts_matches(e, token, payload) ==
    IF e.initial_state = None
    THEN FeedOutcome(e, e.current_state, token, payload, NoInitialState, <<>>, FALSE)
    ELSE IF raise_on_token(token) # None
    THEN FeedOutcome(e, e.current_state, token, payload,
                     raise_on_token(token), <<>>, FALSE)
    ELSE LET first == Get(e.transitions, <<e.current_state, token>>)
             token_ == IF first = None THEN Wildcard ELSE token
             next_state == IF first = None
                           THEN Get(e.transitions, <<e.current_state, token_>>)
                           ELSE first
         IN IF next_state = None
            THEN FeedOutcome(e, e.current_state, token, payload,
                             IF e.raise_on_invalid_token
                             THEN InvalidToken ELSE "False", <<>>, FALSE)
            ELSE commit([e EXCEPT !.feed_count = @ + 1], token, token_, payload)

\* feed without the check for an initial state.
feed_unguarded(e, token, payload) ==
    IF raise_on_token(token) # None
    THEN FeedOutcome(e, e.current_state, token, payload,
                     raise_on_token(token), <<>>, FALSE)
    ELSE LET e1 == [e EXCEPT !.feed_count = @ + 1]
             first == Get(e1.transitions, <<e1.current_state, token>>)
             token_ == IF first = None THEN Wildcard ELSE token
             next_state == IF first = None
                           THEN Get(e1.transitions, <<e1.current_state, token_>>)
                           ELSE first
         IN IF next_state = None
            THEN FeedOutcome(e1, e.current_state, token, payload,
                             IF e1.raise_on_invalid_token
                             THEN InvalidToken ELSE "False", <<>>, FALSE)
            ELSE commit(e1, token, token_, payload)

feed(e, token, payload) ==
    IF e.initial_state = None
    THEN FeedOutcome(e, e.current_state, token, payload, NoInitialState, <<>>, FALSE)
    ELSE IF raise_on_token(token) # None
    THEN FeedOutcome(e, e.current_state, token, payload,
                     raise_on_token(token), <<>>, FALSE)
    ELSE LET e1 == [e EXCEPT !.feed_count = @ + 1]
             first == Get(e1.transitions, <<e1.current_state, token>>)
             token_ == IF first = None THEN Wildcard ELSE token
             next_state == IF first = None
                           THEN Get(e1.transitions, <<e1.current_state, token_>>)
                           ELSE first
         IN IF next_state = None
            THEN FeedOutcome(e1, e.current_state, token, payload,
                             IF e1.raise_on_invalid_token
                             THEN InvalidToken ELSE "False", <<>>, FALSE)
            ELSE commit(e1, token, token_, payload)

\* The record of a feed without the engine.
FeedRecord(f) ==
    [exited |-> f.exited, token |-> f.token, payload |-> f.payload,
     result |-> f.result, calls |-> f.calls, resets |-> f.resets]

RECURSIVE Results(_)
Results(feeds) ==
    IF feeds = <<>> THEN <<>> ELSE <<Head(feeds).result>> \o Results(Tail(feeds))

\* The list comprehension of feed_many over zip(tokens, payloads,
\* strict=True): zip yields pairs while both have an item and raises
\* ValueError when only one of them is exhausted; a feed that raises ends
\* the call.  result is the error raised (None when the call returned) and
\* returned the list it returned.
RECURSIVE feed_zip(_, _, _, _)
feed_zip(e, tokens, payloads, feeds) ==
    IF tokens = <<>> /\ payloads = <<>>
    THEN [sm |-> e, result |-> None, returned |-> Results(feeds), feeds |-> feeds]
    ELSE IF tokens = <<>> \/ payloads = <<>>
    THEN [sm |-> e, result |-> PayloadCountMismatch, returned |-> <<>>,
          feeds |-> feeds]
    ELSE LET f == feed(e, Head(tokens), Head(payloads))
         IN IF f.result \in {"True", "False"}
            THEN feed_zip(f.sm, Tail(tokens), Tail(payloads),
                          Append(feeds, FeedRecord(f)))
            ELSE [sm |-> f.sm, result |-> f.result, returned |-> <<>>,
                  feeds |-> Append(feeds, FeedRecord(f))]

\* The payloads argument of feed_many: None (the default) or a list.
NonePayloads == [is_none |-> TRUE, items |-> <<>>]
PayloadList(items) == [is_none |-> FALSE, items |-> items]

\* feed_many that feeds the tokens, and their payloads, last to first.
feed_many_reversed(e, tokens, payloads) ==
    feed_zip(e, [i \in 1..Len(tokens) |-> tokens[Len(tokens) + 1 - i]],
             IF payloads.is_none
             THEN [i \in 1..Len(tokens) |-> None]
             ELSE [i \in 1..Len(payloads.items) |->
                      payloads.items[Len(payloads.items) + 1 - i]],
             <<>>)

feed_many(e, tokens, payloads) ==
    feed_zip(e, tokens,
             IF payloads.is_none
             THEN [i \in 1..Len(tokens) |-> None] ELSE payloads.items,
             <<>>)

\* --------------------------------------------------------------- pickling

\* _PicklableDeterministicFiniteStateMachine.from_state_machine: the seven
\* fields that are pickled.
from_state_machine(state_machine) ==
    [is_terminal |-> state_machine.is_terminal,
     transitions |-> state_machine.transitions,
     initial_state |-> state_machine.initial_state,
     current_state |-> state_machine.current_state,
     feed_count |-> state_machine.feed_count,
     transition_count |-> state_machine.transition_count,
     raise_on_invalid_token |-> state_machine.raise_on_invalid_token]

\* to_state_machine that restarts the counters.
to_state_machine_fresh_counts(picklable) ==
    [New(FALSE) EXCEPT
        !.is_terminal = picklable.is_terminal,
        !.transitions = picklable.transitions,
        !.initial_state = picklable.initial_state,
        !.current_state = picklable.current_state,
        !.raise_on_invalid_token = picklable.raise_on_invalid_token,
        !.enter_callbacks = [state \in DOMAIN picklable.is_terminal |-> <<>>],
        !.exit_callbacks = [state \in DOMAIN picklable.is_terminal |-> <<>>],
        !.transition_callbacks =
            [transition \in DOMAIN picklable.transitions |-> <<>>]]

\* to_state_machine: a newly constructed engine that is given the pickled
\* fields and an empty bucket for every state and every transition.
to_state_machine(picklable) ==
    [New(FALSE) EXCEPT
        !.is_terminal = picklable.is_terminal,
        !.transitions = picklable.transitions,
        !.initial_state = picklable.initial_state,
        !.current_state = picklable.current_state,
        !.feed_count = picklable.feed_count,
        !.transition_count = picklable.transition_count,
        !.raise_on_invalid_token = picklable.raise_on_invalid_token,
        !.enter_callbacks = [state \in DOMAIN picklable.is_terminal |-> <<>>],
        !.exit_callbacks = [state \in DOMAIN picklable.is_terminal |-> <<>>],
        !.transition_callbacks =
            [transition \in DOMAIN picklable.transitions |-> <<>>]]

\* Unpickling that hands the pickled engine back, callbacks included.
unpickle_from_file_same(e) == e

\* pickle_to_file followed by unpickle_from_file.
unpickle_from_file(e) == to_state_machine(from_state_machine(e))

\* ------------------------------------------------------------------ state

VARIABLES
    is_terminal, transitions,
    exit_callbacks, enter_callbacks, transition_callbacks,
    enter_termination_callbacks, exit_termination_callbacks,
    enter_initial_callbacks, exit_initial_callbacks, always_callbacks,
    initial_state, current_state,
    feed_count, transition_count, next_handle,
    raise_on_invalid_token,
    last,       \* the last call: its arguments, what it returned or raised,
                \* the feeds it made and the counters and state it started from
    accepted,   \* feed calls since the last reset() that passed the initial
                \* state and token checks
    matched,    \* those of them whose token had a transition in the table
    issued,     \* the handles the binds on this engine have returned, in order
    marked      \* the states added to this engine with is_initial=True

fields == <<is_terminal, transitions,
            exit_callbacks, enter_callbacks, transition_callbacks,
            enter_termination_callbacks, exit_termination_callbacks,
            enter_initial_callbacks, exit_initial_callbacks, always_callbacks,
            initial_state, current_state,
            feed_count, transition_count, next_handle,
            raise_on_invalid_token>>

vars == <<fields, last, accepted, matched, issued, marked>>

\* The engine object.
self ==
    [is_terminal |-> is_terminal,
     transitions |-> transitions,
     exit_callbacks |-> exit_callbacks,
     enter_callbacks |-> enter_callbacks,
     transition_callbacks |-> transition_callbacks,
     enter_termination_callbacks |-> enter_termination_callbacks,
     exit_termination_callbacks |-> exit_termination_callbacks,
     enter_initial_callbacks |-> enter_initial_callbacks,
     exit_initial_callbacks |-> exit_initial_callbacks,
     always_callbacks |-> always_callbacks,
     initial_state |-> initial_state,
     current_state |-> current_state,
     feed_count |-> feed_count,
     transition_count |-> transition_count,
     next_handle |-> next_handle,
     raise_on_invalid_token |-> raise_on_invalid_token]

\* The engine is e (now, or after the step).
Is(e) ==
    /\ is_terminal = e.is_terminal
    /\ transitions = e.transitions
    /\ exit_callbacks = e.exit_callbacks
    /\ enter_callbacks = e.enter_callbacks
    /\ transition_callbacks = e.transition_callbacks
    /\ enter_termination_callbacks = e.enter_termination_callbacks
    /\ exit_termination_callbacks = e.exit_termination_callbacks
    /\ enter_initial_callbacks = e.enter_initial_callbacks
    /\ exit_initial_callbacks = e.exit_initial_callbacks
    /\ always_callbacks = e.always_callbacks
    /\ initial_state = e.initial_state
    /\ current_state = e.current_state
    /\ feed_count = e.feed_count
    /\ transition_count = e.transition_count
    /\ next_handle = e.next_handle
    /\ raise_on_invalid_token = e.raise_on_invalid_token

Becomes(e) ==
    /\ is_terminal' = e.is_terminal
    /\ transitions' = e.transitions
    /\ exit_callbacks' = e.exit_callbacks
    /\ enter_callbacks' = e.enter_callbacks
    /\ transition_callbacks' = e.transition_callbacks
    /\ enter_termination_callbacks' = e.enter_termination_callbacks
    /\ exit_termination_callbacks' = e.exit_termination_callbacks
    /\ enter_initial_callbacks' = e.enter_initial_callbacks
    /\ exit_initial_callbacks' = e.exit_initial_callbacks
    /\ always_callbacks' = e.always_callbacks
    /\ initial_state' = e.initial_state
    /\ current_state' = e.current_state
    /\ feed_count' = e.feed_count
    /\ transition_count' = e.transition_count
    /\ next_handle' = e.next_handle
    /\ raise_on_invalid_token' = e.raise_on_invalid_token

\* What a call starts from: the engine before the call.
Pre == self

Call(op, tokens, payloads, result, returned, handle, feeds) ==
    [op |-> op, tokens |-> tokens, payloads |-> payloads, pre |-> Pre,
     result |-> result, returned |-> returned, handle |-> handle,
     feeds |-> feeds]

NoCall ==
    [op |-> "init", tokens |-> <<>>, payloads |-> NonePayloads,
     pre |-> New(FALSE),
     result |-> None, returned |-> <<>>, handle |-> -1, feeds |-> <<>>]

\* The token of a feed record has a transition in the table, concrete or
\* wildcard, from the state the feed was called in.
HasTransition(f) ==
    \/ <<f.exited, f.token>> \in DOMAIN transitions
    \/ <<f.exited, Wildcard>> \in DOMAIN transitions

\* The counts of accepted and matched feeds after the feeds of one call.
RECURSIVE Count(_, _)
Count(c, feeds) ==
    IF feeds = <<>> THEN c
    ELSE LET f == Head(feeds)
             passed == f.result \notin {NoInitialState, "TypeError"}
             c1 == IF ~passed THEN c
                   ELSE [accepted |-> c.accepted + 1,
                         matched |-> c.matched + (IF HasTransition(f) THEN 1 ELSE 0)]
             c2 == IF f.resets THEN [accepted |-> 0, matched |-> 0] ELSE c1
         IN Count(c2, Tail(feeds))

Counted(feeds) ==
    LET c == Count([accepted |-> accepted, matched |-> matched], feeds)
    IN /\ accepted' = c.accepted
       /\ matched' = c.matched

\* ---------------------------------------------------------------- buckets


\* A bucket a client binds to: the family and, for the per-state and the
\* per-transition families, the state and the token.
Bucket(family, state, token) == [family |-> family, state |-> state, token |-> token]

Bind(e, bucket, callback) ==
    CASE bucket.family = "enter" -> bind_callback_at_enter(e, bucket.state, callback)
      [] bucket.family = "exit" -> bind_callback_at_exit(e, bucket.state, callback)
      [] bucket.family = "transition" ->
            bind_callback_at_transition(e, bucket.state, bucket.token, callback)
      [] bucket.family = "enter_termination" ->
            bind_callback_at_enter_termination(e, callback)
      [] bucket.family = "exit_termination" ->
            bind_callback_at_exit_termination(e, callback)
      [] bucket.family = "enter_initial" -> bind_callback_at_enter_initial(e, callback)
      [] bucket.family = "exit_initial" -> bind_callback_at_exit_initial(e, callback)
      [] bucket.family = "always" -> bind_callback_always(e, callback)

Unbind(e, bucket, handle) ==
    CASE bucket.family = "enter" -> unbind_callback_at_enter(e, bucket.state, handle)
      [] bucket.family = "exit" -> unbind_callback_at_exit(e, bucket.state, handle)
      [] bucket.family = "transition" ->
            unbind_callback_at_transition(e, bucket.state, bucket.token, handle)
      [] bucket.family = "enter_termination" ->
            unbind_callback_at_enter_termination(e, handle)
      [] bucket.family = "exit_termination" ->
            unbind_callback_at_exit_termination(e, handle)
      [] bucket.family = "enter_initial" -> unbind_callback_at_enter_initial(e, handle)
      [] bucket.family = "exit_initial" -> unbind_callback_at_exit_initial(e, handle)
      [] bucket.family = "always" -> unbind_callback_always(e, handle)

\* ---------------------------------------------------------------- actions

Feed ==
    \E token \in FeedTokens, payload \in Payloads :
        /\ feed_count < MaxFeeds
        /\ LET f == feed(self, token, payload)
           IN /\ Becomes(f.sm)
              /\ last' = Call("feed", <<token>>, PayloadList(<<payload>>),
                              f.result, <<>>, -1, <<FeedRecord(f)>>)
              /\ Counted(<<FeedRecord(f)>>)
              /\ UNCHANGED <<issued, marked>>

\* Token lists and payload lists of feed_many.
TokenLists == UNION {[1..n -> {"a", "z"}] : n \in 0..MaxLen}
PayloadLists ==
    {[i \in 1..n |-> IF i % 2 = 1 THEN "p" ELSE None] : n \in 0..(MaxLen + 1)}

FeedMany ==
    \E tokens \in TokenLists,
       payloads \in {NonePayloads} \cup {PayloadList(l) : l \in PayloadLists} :
        /\ feed_count + Len(tokens) <= MaxFeeds
        /\ LET r == feed_many(self, tokens, payloads)
           IN /\ Becomes(r.sm)
              /\ last' = Call("feed_many", tokens, payloads,
                              r.result, r.returned, -1, r.feeds)
              /\ Counted(r.feeds)
              /\ UNCHANGED <<issued, marked>>

Reset ==
    /\ Becomes(reset(self))
    /\ last' = Call("reset", <<>>, NonePayloads, None, <<>>, -1, <<>>)
    /\ accepted' = 0
    /\ matched' = 0
    /\ UNCHANGED <<issued, marked>>

\* The states and callbacks of the engines built call by call.
BuildStates == {"x", None}
BuildCallbacks == {"ok"}

AddState ==
    \E state \in BuildStates \cup {Unhashable},
       is_terminal_arg \in BOOLEAN, is_initial_arg \in BOOLEAN :
        LET r == add_state(self, state, is_terminal_arg, is_initial_arg)
        IN /\ Becomes(r.sm)
           /\ last' = Call("add_state", <<state>>,
                           PayloadList(<<is_terminal_arg, is_initial_arg>>),
                           r.result, <<>>, -1, <<>>)
           /\ marked' = IF is_initial_arg /\ r.result = None
                         THEN marked \cup {state} ELSE marked
           /\ UNCHANGED <<accepted, matched, issued>>

AddTransition ==
    \E exited_state \in BuildStates, entered_state \in BuildStates,
       token \in KeyTokens :
        LET r == add_transition(self, exited_state, entered_state, token)
        IN /\ Cardinality(DOMAIN r.sm.transitions) <= MaxTransitions
           /\ Becomes(r.sm)
           /\ last' = Call("add_transition", <<exited_state, entered_state, token>>,
                           NonePayloads, r.result, <<>>, -1, <<>>)
           /\ UNCHANGED <<accepted, matched, issued, marked>>

\* The buckets clients bind to and unbind from: one of every family, and
\* the enter buckets of two states.
Buckets ==
    {Bucket("enter", "x", None),
     Bucket("enter", None, None),
     Bucket("exit", "x", None),
     Bucket("transition", "x", "a"),
     Bucket("always", None, None),
     Bucket("enter_initial", None, None),
     Bucket("exit_initial", None, None),
     Bucket("enter_termination", None, None),
     Bucket("exit_termination", None, None)}

BindCallback ==
    \E bucket \in Buckets, callback \in BuildCallbacks :
        LET r == Bind(self, bucket, callback)
        IN /\ r.sm.next_handle <= MaxHandles
           /\ Becomes(r.sm)
           /\ last' = Call("bind", <<bucket>>, NonePayloads,
                           r.result, <<>>, r.handle, <<>>)
           /\ issued' = IF r.result = None THEN Append(issued, r.handle) ELSE issued
           /\ UNCHANGED <<accepted, matched, marked>>

UnbindCallback ==
    \E bucket \in Buckets, handle \in 0..(MaxHandles - 1) :
        LET r == Unbind(self, bucket, handle)
        IN /\ Becomes(r.sm)
           /\ last' = Call("unbind", <<bucket>>, NonePayloads,
                           r.result, <<>>, handle, <<>>)
           /\ UNCHANGED <<accepted, matched, issued, marked>>

\* The engine after construction.
Init ==
    /\ \E raise_flag \in BOOLEAN : Is(New(raise_flag))
    /\ last = NoCall
    /\ accepted = 0
    /\ matched = 0
    /\ issued = <<>>
    /\ marked = {}

\* An engine built call by call is bound to at most MaxBuildHandles times,
\* in these buckets.
BuildBuckets ==
    {Bucket("enter", "x", None),
     Bucket("transition", "x", "a"),
     Bucket("always", None, None)}

Building ==
    /\ last.tokens[1] \in BuildBuckets
    /\ last.handle < MaxBuildHandles
    /\ next_handle <= MaxBuildHandles

Next ==
    \/ AddState
    \/ AddTransition
    \/ BindCallback /\ Building'
    \/ UnbindCallback /\ Building'
    \/ Feed
    \/ Reset

Spec == Init /\ [][Next]_vars

\* ------------------------------------------------------------ built engines


\* The keys of the tables built below, in the order they are added, and the
\* tables: a target for every key, or no transition for it.
TableKeys == <<<<"x", "a">>, <<"x", Wildcard>>, <<"a", "a">>, <<"a", Wildcard>>>>
Absent == "absent"
Tables == [1..Len(TableKeys) -> States \cup {Absent}]

RECURSIVE AddTransitions(_, _, _)
AddTransitions(e, table, i) ==
    IF i > Len(TableKeys) THEN e
    ELSE AddTransitions(
            IF table[i] = Absent THEN e
            ELSE add_transition(e, TableKeys[i][1], table[i], TableKeys[i][2]).sm,
            table, i + 1)

\* The buckets bound to, in binding order (which is not the dispatch order;
\* "always", exit of x and enter of a are bound to twice).
BindOrder ==
    <<Bucket("enter_initial", None, None),
      Bucket("enter", "x", None),
      Bucket("always", None, None),
      Bucket("transition", "x", "a"),
      Bucket("exit_termination", None, None),
      Bucket("exit", "a", None),
      Bucket("transition", "a", Wildcard),
      Bucket("enter_termination", None, None),
      Bucket("enter", "a", None),
      Bucket("exit", "x", None),
      Bucket("transition", "x", Wildcard),
      Bucket("exit_initial", None, None),
      Bucket("transition", "a", "a"),
      Bucket("always", None, None),
      Bucket("exit", "x", None),
      Bucket("enter", "a", None)>>

\* One callback per entry of BindOrder: all return; or all but one, which
\* raises, calls reset() or is None;
\* or the first "always" callback calls reset() and another one raises, or
\* it raises and another one calls reset().
Plain == [i \in 1..Len(BindOrder) |-> "ok"]
FirstAlways ==
    CHOOSE i \in 1..Len(BindOrder) :
        /\ BindOrder[i].family = "always"
        /\ \A j \in 1..(i - 1) : BindOrder[j].family # "always"
Callbacks ==
    {Plain}
    \cup {[Plain EXCEPT ![i] = k] :
             i \in 1..Len(BindOrder), k \in CallbackKinds \ {"ok"}}
    \cup {[Plain EXCEPT ![FirstAlways] = "reset", ![i] = "raise"] :
             i \in 1..Len(BindOrder) \ {FirstAlways}}
    \cup {[Plain EXCEPT ![FirstAlways] = "raise", ![i] = "reset"] :
             i \in 1..Len(BindOrder) \ {FirstAlways}}

RECURSIVE BindAll(_, _, _)
BindAll(e, callbacks, i) ==
    IF i > Len(BindOrder) THEN e
    ELSE BindAll(Bind(e, BindOrder[i], callbacks[i]).sm, callbacks, i + 1)

\* The engine a client builds: states x (initial), a and None, the
\* transitions of the table, the callbacks bound in BindOrder.  A bind to a
\* transition the table does not have raises and binds nothing.
Built(raise_flag, x_terminal, a_terminal, table, callbacks) ==
    LET e1 == add_state(New(raise_flag), "x", x_terminal, TRUE).sm
        e2 == add_state(e1, "a", a_terminal, FALSE).sm
        e3 == add_state(e2, None, FALSE, FALSE).sm
    IN BindAll(AddTransitions(e3, table, 1), callbacks, 1)

\* The same engine before any callback is bound.
Tabled(raise_flag, x_terminal, a_terminal, table) ==
    LET e1 == add_state(New(raise_flag), "x", x_terminal, TRUE).sm
        e2 == add_state(e1, "a", a_terminal, FALSE).sm
        e3 == add_state(e2, None, FALSE, FALSE).sm
    IN AddTransitions(e3, table, 1)

\* A table in which every transition key is present and both states are
\* passed through.
FullTable == <<"a", "x", "a", "x">>

\* Engines with every table and callbacks that all return, and engines with
\* one callback that does not, over the full table.
InitBuilt ==
    /\ \E raise_flag \in BOOLEAN, x_terminal \in BOOLEAN, a_terminal \in BOOLEAN,
          table \in Tables, callbacks \in Callbacks :
            /\ callbacks = Plain \/ (table = FullTable /\ ~raise_flag)
            /\ Is(Built(raise_flag, x_terminal, a_terminal, table, callbacks))
    /\ last = NoCall
    /\ accepted = 0
    /\ matched = 0
    /\ issued = [i \in 1..next_handle |-> i - 1]
    /\ marked = {"x"}

NextFeed == Feed \/ Reset

SpecFeed == InitBuilt /\ [][NextFeed]_vars

\* feed_many on the engines whose tables have no transition to None.
InitMany ==
    /\ \E raise_flag \in BOOLEAN, table \in Tables, callbacks \in Callbacks :
            /\ \A i \in 1..Len(TableKeys) : table[i] # None
            /\ callbacks = Plain \/ (table = FullTable /\ ~raise_flag)
            /\ Is(Built(raise_flag, FALSE, TRUE, table, callbacks))
    /\ last = NoCall
    /\ accepted = 0
    /\ matched = 0
    /\ issued = [i \in 1..next_handle |-> i - 1]
    /\ marked = {"x"}

NextMany == FeedMany \/ Reset

SpecMany == InitMany /\ [][NextMany]_vars

\* Binding and unbinding on an engine whose states and transitions are set
\* up, between feeds and resets.
InitBind ==
    /\ \E raise_flag \in BOOLEAN : Is(Tabled(raise_flag, FALSE, TRUE, FullTable))
    /\ last = NoCall
    /\ accepted = 0
    /\ matched = 0
    /\ issued = <<>>
    /\ marked = {"x"}

NextBind == BindCallback \/ UnbindCallback \/ Feed \/ Reset

SpecBind == InitBind /\ [][NextBind]_vars

\* The client pickles the engine to a file and goes on with the engine
\* unpickled from it: a new engine, whose binds start at handle 0.
Restore ==
    /\ Becomes(unpickle_from_file(self))
    /\ last' = Call("restore", <<>>, NonePayloads, None, <<>>, -1, <<>>)
    /\ issued' = <<>>
    /\ UNCHANGED <<accepted, matched, marked>>

NextPickle == Feed \/ Reset \/ Restore

SpecPickle == InitMany /\ [][NextPickle]_vars

\* ---------------------------------------------------------------- scenarios

\* The transitions of a table, added in order: <<exited, entered, token>>.
RECURSIVE AddAll(_, _)
AddAll(e, table) ==
    IF table = <<>> THEN e
    ELSE AddAll(add_transition(e, table[1][1], table[1][2], table[1][3]).sm,
                Tail(table))

\* The machine of TestStateMachine: states '0' (initial and terminal), '1',
\* '2', '3' and, from every state s, the transition to (s + d) mod 4 for
\* the tokens d = 0, 1, 2.  Tokens are written by their names.
SumStates == <<"0", "1", "2", "3">>
Digits == <<"0", "1", "2">>
NoDigit == "42"
StateAfter(s, d) == SumStates[((s + d) % Len(SumStates)) + 1]

SumTable(names) ==
    [i \in 1..(Len(SumStates) * Len(names)) |->
        LET s == (i - 1) \div Len(names)
            d == (i - 1) % Len(names)
        IN <<SumStates[s + 1], StateAfter(s, d), names[d + 1]>>]

SumStatesAdded ==
    LET e0 == add_state(New(FALSE), SumStates[1], TRUE, TRUE).sm
        e1 == add_state(e0, SumStates[2], FALSE, FALSE).sm
        e2 == add_state(e1, SumStates[3], FALSE, FALSE).sm
    IN add_state(e2, SumStates[4], FALSE, FALSE).sm

\* The machine with the tokens 1 and 2 exchanged.
SumMachine_exchanged == AddAll(SumStatesAdded, SumTable(<<"0", "2", "1">>))

SumMachine == AddAll(SumStatesAdded, SumTable(Digits))

\* The machine of the demo: states x (initial), o, m, g (terminal), the
\* letter transitions and a wildcard transition from every state to x.
DemoTable ==
    <<<<"x", "o", "o">>, <<"x", "x", Wildcard>>,
      <<"o", "m", "m">>, <<"o", "o", "o">>, <<"o", "x", Wildcard>>,
      <<"m", "g", "g">>, <<"m", "o", "o">>, <<"m", "x", Wildcard>>,
      <<"g", "o", "o">>, <<"g", "x", Wildcard>>>>

DemoStatesAdded ==
    LET e0 == add_state(New(FALSE), "x", FALSE, TRUE).sm
        e1 == add_state(e0, "o", FALSE, FALSE).sm
        e2 == add_state(e1, "m", FALSE, FALSE).sm
    IN add_state(e2, "g", TRUE, FALSE).sm

IsLetter(t) == t[3] # Wildcard

\* The demo machine without its wildcard transitions.
DemoMachine_letters == AddAll(DemoStatesAdded, SelectSeq(DemoTable, IsLetter))

DemoMachine == AddAll(DemoStatesAdded, DemoTable)

\* The token lists fed to the two machines.
DigitLists == UNION {[1..n -> {"0", "1", "2", NoDigit}] : n \in 0..MaxString}
Texts == UNION {[1..n -> {"o", "m", "g", "!"}] : n \in 0..MaxString}

\* feed_many(tokens) on the machine of TestStateMachine.
FeedDigits ==
    \E tokens \in DigitLists :
        /\ feed_count + Len(tokens) <= MaxString
        /\ LET r == feed_many(self, tokens, NonePayloads)
           IN /\ Becomes(r.sm)
              /\ last' = Call("feed_many", tokens, NonePayloads,
                              r.result, r.returned, -1, r.feeds)
              /\ Counted(r.feeds)
              /\ UNCHANGED <<issued, marked>>

\* The loop of the demo: feed(char) for every char of a text.
FeedText ==
    \E text \in Texts :
        /\ feed_count + Len(text) <= MaxString
        /\ LET r == feed_zip(self, text, [i \in 1..Len(text) |-> None], <<>>)
           IN /\ Becomes(r.sm)
              /\ last' = Call("feeds", text, NonePayloads,
                              r.result, r.returned, -1, r.feeds)
              /\ Counted(r.feeds)
              /\ UNCHANGED <<issued, marked>>

InitSum ==
    /\ Is(SumMachine)
    /\ last = NoCall
    /\ accepted = 0
    /\ matched = 0
    /\ issued = <<>>
    /\ marked = {SumStates[1]}

NextSum == FeedDigits \/ Reset

SpecSum == InitSum /\ [][NextSum]_vars

InitDemo ==
    /\ Is(DemoMachine)
    /\ last = NoCall
    /\ accepted = 0
    /\ matched = 0
    /\ issued = <<>>
    /\ marked = {"x"}

NextDemo == FeedText \/ Reset

SpecDemo == InitDemo /\ [][NextDemo]_vars

\* ------------------------------------------------------- reading the state

\* The last call was a feed; its record, the state it was called in, the
\* token fed and the callbacks it called, in calling order.
IsFeed == last.op = "feed"
TheFeed == last.feeds[1]
A == TheFeed.exited
Fed == TheFeed.token
Calls == TheFeed.calls
CalledHandles == {Calls[i].handle : i \in 1..Len(Calls)}

\* The feed was of a hashable token to an engine with an initial state.
Valid == IsFeed /\ Fed # Unhashable /\ initial_state # None

\* The feed resolved a key K of the table to a target B and dispatched.
Dispatched == IsFeed /\ last.result \in {"True", CallbackError}
K == IF Get(transitions, <<A, Fed>>) # None THEN Fed ELSE Wildcard
B == transitions[<<A, K>>]

\* The handles bound in a bucket to something callable.
Callable(callbacks) ==
    {callbacks[i].handle : i \in {j \in 1..Len(callbacks) : callbacks[j].callback # None}}

\* The place of a bound handle in the dispatch order of the transition from
\* A to B via K: 1 always, 2 exit of A, 3 transition (A, K), 4 enter of B,
\* 5 exit-terminal, 6 exit-initial, 7 enter-terminal, 8 enter-initial, and
\* 0 for a handle of a bucket the transition does not concern.
Place(h) ==
    CASE h \in Handles(always_callbacks) -> 1
      [] h \in Handles(exit_callbacks[A]) -> 2
      [] h \in Handles(transition_callbacks[<<A, K>>]) -> 3
      [] h \in Handles(enter_callbacks[B]) -> 4
      [] h \in Handles(exit_termination_callbacks) -> 5
      [] h \in Handles(exit_initial_callbacks) -> 6
      [] h \in Handles(enter_termination_callbacks) -> 7
      [] h \in Handles(enter_initial_callbacks) -> 8
      [] OTHER -> 0

\* The guard of a place.
Guard(place) ==
    CASE place = 0 -> FALSE
      [] place = 5 -> is_terminal[A]
      [] place = 6 -> A = initial_state
      [] place = 7 -> is_terminal[B]
      [] place = 8 -> B = initial_state
      [] OTHER -> TRUE

\* The bindings of every bucket, and what the callback bound under a handle
\* does.
Bindings(callbacks) == {callbacks[i] : i \in 1..Len(callbacks)}
AllBindings ==
    Bindings(always_callbacks)
    \cup UNION {Bindings(exit_callbacks[s]) : s \in DOMAIN exit_callbacks}
    \cup UNION {Bindings(enter_callbacks[s]) : s \in DOMAIN enter_callbacks}
    \cup UNION {Bindings(transition_callbacks[k]) : k \in DOMAIN transition_callbacks}
    \cup Bindings(exit_termination_callbacks)
    \cup Bindings(exit_initial_callbacks)
    \cup Bindings(enter_termination_callbacks)
    \cup Bindings(enter_initial_callbacks)
KindOf(h) == (CHOOSE b \in AllBindings : b.handle = h).callback

\* The handles bound in the transition buckets.
TransitionHandles ==
    UNION {Handles(transition_callbacks[k]) : k \in DOMAIN transition_callbacks}

\* Every handle bound to something callable, in any bucket.
AllCallable ==
    Callable(always_callbacks)
    \cup UNION {Callable(exit_callbacks[s]) : s \in DOMAIN exit_callbacks}
    \cup UNION {Callable(enter_callbacks[s]) : s \in DOMAIN enter_callbacks}
    \cup UNION {Callable(transition_callbacks[k]) : k \in DOMAIN transition_callbacks}
    \cup Callable(exit_termination_callbacks)
    \cup Callable(exit_initial_callbacks)
    \cup Callable(enter_termination_callbacks)
    \cup Callable(enter_initial_callbacks)

\* The callbacks the transition is to call.
Due == {h \in AllCallable : Guard(Place(h))}

\* h comes before g in the dispatch order: an earlier bucket, or the same
\* bucket and bound earlier (handles are issued in binding order).
Before(h, g) ==
    \/ Place(h) < Place(g)
    \/ Place(h) = Place(g) /\ h < g

\* The calls were made in dispatch order, no callback twice.
InOrder == \A i, j \in 1..Len(Calls) : i < j => Before(Calls[i].handle, Calls[j].handle)

\* ----------------------------------------------------------------- claims

\* C1: a feed that resolves, in state A, a key K to a target B and whose
\* callbacks all return calls exactly the callable callbacks of: always,
\* exit of A, transition (A, K), enter of B, then of the global buckets whose
\* guard holds, exit-terminal, exit-initial, enter-terminal, enter-initial;
\* in that bucket order, and in binding order inside a bucket.
C1_DispatchOrder ==
    (IsFeed /\ last.result = "True") =>
        /\ CalledHandles = Due
        /\ InOrder

\* C1 witness: a feed from the initial, non-terminal state into a terminal
\* state that is not the initial one has called, in this order, the two
\* always callbacks, the two exit callbacks of x, the transition callback of
\* (x, "a"), the two enter callbacks of a, exit-initial and enter-terminal;
\* the exit callbacks were bound after the transition callback.
C1_Witness ==
    /\ IsFeed /\ last.result = "True"
    /\ A = initial_state /\ ~is_terminal[A]
    /\ B # initial_state /\ is_terminal[B]
    /\ Len(Calls) = 9
    /\ [i \in 1..9 |-> Place(Calls[i].handle)] = <<1, 1, 2, 2, 3, 4, 4, 6, 7>>
    /\ Calls[3].handle > Calls[5].handle

\* C2: in the dispatch of a transition from A to B an exit-terminal callback
\* is called only if A is terminal, an exit-initial callback only if A is
\* the initial state, an enter-terminal callback only if B is terminal, an
\* enter-initial callback only if B is the initial state, and when the
\* dispatch runs to its end every callable callback of a bucket whose guard
\* holds has been called.
C2_GuardedBuckets ==
    Dispatched =>
        /\ \A h \in CalledHandles \cap Handles(exit_termination_callbacks) :
                is_terminal[A]
        /\ \A h \in CalledHandles \cap Handles(exit_initial_callbacks) :
                A = initial_state
        /\ \A h \in CalledHandles \cap Handles(enter_termination_callbacks) :
                is_terminal[B]
        /\ \A h \in CalledHandles \cap Handles(enter_initial_callbacks) :
                B = initial_state
        /\ last.result = "True" =>
            /\ is_terminal[A] => Callable(exit_termination_callbacks) \subseteq CalledHandles
            /\ A = initial_state => Callable(exit_initial_callbacks) \subseteq CalledHandles
            /\ is_terminal[B] => Callable(enter_termination_callbacks) \subseteq CalledHandles
            /\ B = initial_state => Callable(enter_initial_callbacks) \subseteq CalledHandles

\* C2 witness: a transition from a terminal state that is not the initial
\* one into the initial, non-terminal state has called the exit-terminal
\* and the enter-initial callback and neither the exit-initial nor the
\* enter-terminal callback, which are bound.
C2_Witness ==
    /\ IsFeed /\ last.result = "True"
    /\ is_terminal[A] /\ A # initial_state
    /\ ~is_terminal[B] /\ B = initial_state
    /\ Callable(exit_termination_callbacks) # {}
    /\ Callable(exit_termination_callbacks) \subseteq CalledHandles
    /\ Callable(enter_initial_callbacks) # {}
    /\ Callable(enter_initial_callbacks) \subseteq CalledHandles
    /\ Callable(exit_initial_callbacks) # {}
    /\ Callable(exit_initial_callbacks) \cap CalledHandles = {}
    /\ Callable(enter_termination_callbacks) # {}
    /\ Callable(enter_termination_callbacks) \cap CalledHandles = {}

\* C3: when the table holds a concrete transition (A, x) and a wildcard
\* transition (A, wildcard), feeding x in state A matches, moves to the
\* target of the concrete transition and calls the transition callbacks of
\* (A, x) and none of (A, wildcard); and a feed resolves the wildcard key
\* only when the table holds no transition (A, fed token).
C3_ConcretePrecedence ==
    /\ (Valid /\ Fed # Wildcard
              /\ <<A, Fed>> \in DOMAIN transitions
              /\ <<A, Wildcard>> \in DOMAIN transitions) =>
            /\ Dispatched
            /\ last.result = "True" => current_state = transitions[<<A, Fed>>]
            /\ CalledHandles \cap Handles(transition_callbacks[<<A, Wildcard>>]) = {}
            /\ last.result = "True" =>
                  Callable(transition_callbacks[<<A, Fed>>]) \subseteq CalledHandles
    /\ (Dispatched /\ Fed # Wildcard
                   /\ \E i \in 1..Len(Calls) : Calls[i].event.token = Wildcard) =>
            <<A, Fed>> \notin DOMAIN transitions

\* C4: when the fed token has no transition from the current state and
\* matches through the wildcard transition, every callback called gets an
\* event whose token is the wildcard marker, and the transition callbacks
\* called are those bound to (current state, wildcard).
C4_WildcardToken ==
    (Dispatched /\ <<A, Fed>> \notin DOMAIN transitions) =>
        /\ \A i \in 1..Len(Calls) : Calls[i].event.token = Wildcard
        /\ CalledHandles \cap TransitionHandles
              \subseteq Handles(transition_callbacks[<<A, Wildcard>>])
        /\ last.result = "True" =>
              Callable(transition_callbacks[<<A, Wildcard>>]) \subseteq CalledHandles

\* C4 witness: "z", which no table has as a key, was fed and matched; the
\* callback bound to (current state, wildcard) was called and got the
\* wildcard marker as the token.
C4_Witness ==
    /\ IsFeed /\ last.result = "True" /\ Fed = "z"
    /\ \E i \in 1..Len(Calls) :
          /\ Calls[i].handle \in Handles(transition_callbacks[<<A, Wildcard>>])
          /\ Calls[i].event.token = Wildcard

\* C5: feed_count is the number of feed calls since the last reset that
\* passed the initial state and token checks, and transition_count the
\* number of those whose token had a transition, concrete or wildcard, from
\* the state it was fed in.
C5_Counters ==
    /\ feed_count = accepted
    /\ transition_count = matched

\* C6: reset() leaves both counters 0 and the current state the initial
\* state.
C6_Reset ==
    last.op = "reset" =>
        /\ feed_count = 0
        /\ transition_count = 0
        /\ current_state = initial_state

\* C6 witness: reset() was called after two feeds, one of them matched, in
\* a state that is not the initial state.
C6_Witness ==
    /\ last.op = "reset"
    /\ last.pre.feed_count > 1
    /\ last.pre.transition_count > 0
    /\ last.pre.current_state # initial_state
    /\ current_state = initial_state

\* C7: a feed of a valid token that has neither a concrete nor a wildcard
\* transition from the current state leaves the current state and
\* transition_count as they were, calls no callback, adds one to feed_count
\* and returns false, or raises InvalidToken when raise_on_invalid_token is
\* set.
C7_NoMatch ==
    (Valid /\ <<A, Fed>> \notin DOMAIN transitions
           /\ <<A, Wildcard>> \notin DOMAIN transitions) =>
        /\ current_state = last.pre.current_state
        /\ transition_count = last.pre.transition_count
        /\ feed_count = last.pre.feed_count + 1
        /\ Calls = <<>>
        /\ last.result = IF raise_on_invalid_token THEN InvalidToken ELSE "False"

\* C7 witness: an engine that raises on invalid tokens was fed, after a
\* matched feed, a token with no transition from the state it is in, which
\* has an always callback bound.
C7_Witness ==
    /\ Valid
    /\ <<A, Fed>> \notin DOMAIN transitions
    /\ <<A, Wildcard>> \notin DOMAIN transitions
    /\ raise_on_invalid_token
    /\ last.result = InvalidToken
    /\ last.pre.transition_count = 1
    /\ Callable(always_callbacks) # {}

\* C8: feed_many with a payload list whose length is not that of the token
\* list raises PayloadCountMismatch without feeding any token: the
\* counters and the current state are those before the call and no callback
\* was called.
C8_MismatchFeedsNothing ==
    (last.op = "feed_many" /\ ~last.payloads.is_none
                           /\ Len(last.payloads.items) # Len(last.tokens)) =>
        /\ last.result = PayloadCountMismatch
        /\ last.feeds = <<>>
        /\ feed_count = last.pre.feed_count
        /\ transition_count = last.pre.transition_count
        /\ current_state = last.pre.current_state

\* C9 as stated: when a callback raises during the dispatch of a matched
\* feed, the current state is the target of the transition and both
\* counters have been incremented for the feed.
C9_CommittedBeforeDispatch ==
    (IsFeed /\ last.result = CallbackError) =>
        /\ current_state = B
        /\ feed_count = last.pre.feed_count + 1
        /\ transition_count = last.pre.transition_count + 1

\* C9 as amended: when a callback raises during the dispatch of a matched
\* feed, both counters have been incremented for the feed and the current
\* state is still the state the feed was called in; when a callback called
\* before it called reset(), the state and the counters are those reset()
\* set.
C9_CountedNotMoved ==
    (IsFeed /\ last.result = CallbackError) =>
        IF TheFeed.resets
        THEN /\ current_state = initial_state
             /\ feed_count = 0
             /\ transition_count = 0
        ELSE /\ current_state = last.pre.current_state
             /\ feed_count = last.pre.feed_count + 1
             /\ transition_count = last.pre.transition_count + 1

\* C9 witness: a callback raised in the dispatch of a transition to another
\* state, after the second feed, and no callback called reset().
C9_Witness ==
    /\ IsFeed /\ last.result = CallbackError
    /\ ~TheFeed.resets
    /\ B # A
    /\ current_state = A
    /\ feed_count = 2

\* C10: a callback that raises ends the feed with its error: the callbacks
\* before it in the dispatch order have each been called once, in order,
\* it is the last one called and no callback after it is called; and a
\* dispatch with a raising callback among those it is to call never returns
\* true.
C10_AbortsDispatch ==
    /\ (IsFeed /\ last.result = CallbackError) =>
            /\ Calls # <<>>
            /\ KindOf(Calls[Len(Calls)].handle) = "raise"
            /\ InOrder
            /\ CalledHandles =
                 {h \in Due : h = Calls[Len(Calls)].handle
                              \/ Before(h, Calls[Len(Calls)].handle)}
    /\ (Dispatched /\ \E h \in Due : KindOf(h) = "raise") =>
            last.result = CallbackError

\* C10 witness: a callback raised after two others were called and before
\* two others that the transition was to call.
C10_Witness ==
    /\ IsFeed /\ last.result = CallbackError
    /\ Len(Calls) >= 3
    /\ Cardinality(Due \ CalledHandles) >= 2

\* ------------------------------------------------------ binding and unbinding

\* Every binding of an engine with the bucket it is in.
Placed(e) ==
    UNION {{[bucket |-> Bucket("enter", state, None), binding |-> b] :
                b \in Bindings(e.enter_callbacks[state])} :
            state \in DOMAIN e.enter_callbacks}
    \cup UNION {{[bucket |-> Bucket("exit", state, None), binding |-> b] :
                b \in Bindings(e.exit_callbacks[state])} :
            state \in DOMAIN e.exit_callbacks}
    \cup UNION {{[bucket |-> Bucket("transition", key[1], key[2]), binding |-> b] :
                b \in Bindings(e.transition_callbacks[key])} :
            key \in DOMAIN e.transition_callbacks}
    \cup {[bucket |-> Bucket("enter_termination", None, None), binding |-> b] :
            b \in Bindings(e.enter_termination_callbacks)}
    \cup {[bucket |-> Bucket("exit_termination", None, None), binding |-> b] :
            b \in Bindings(e.exit_termination_callbacks)}
    \cup {[bucket |-> Bucket("enter_initial", None, None), binding |-> b] :
            b \in Bindings(e.enter_initial_callbacks)}
    \cup {[bucket |-> Bucket("exit_initial", None, None), binding |-> b] :
            b \in Bindings(e.exit_initial_callbacks)}
    \cup {[bucket |-> Bucket("always", None, None), binding |-> b] :
            b \in Bindings(e.always_callbacks)}

\* The last call was an unbind; the bucket and the handle it named, and
\* whether the handle was bound in that bucket when it was called.
IsUnbind == last.op = "unbind"
Target == last.tokens[1]
WasBound ==
    \E p \in Placed(last.pre) : p.bucket = Target /\ p.binding.handle = last.handle

\* C11: unbinding a handle that is bound in the targeted bucket succeeds, in
\* every bucket family; it removes that binding and no other, and no later
\* feed calls a callback that is not bound any more.
C11_UnbindRemoves ==
    /\ IsUnbind /\ WasBound =>
        /\ last.result = None
        /\ Placed(self) =
            {p \in Placed(last.pre) :
                ~(p.bucket = Target /\ p.binding.handle = last.handle)}
    /\ IsFeed =>
        \A h \in CalledHandles : \E p \in Placed(last.pre) : p.binding.handle = h

\* C12: unbinding a handle that is not bound in the targeted bucket (never
\* issued, unbound before, or bound in another bucket) raises KeyError and
\* leaves every bucket as it was.
C12_UnknownHandle ==
    IsUnbind /\ ~WasBound =>
        /\ last.result = "KeyError"
        /\ Placed(self) = Placed(last.pre)

\* C13: the handles the binds return are strictly increasing, whatever
\* unbinds, feeds and resets come between them; so every bound callback has a
\* handle of its own, which is one of those returned.
C13_FreshHandles ==
    /\ \A i, j \in 1..Len(issued) : i < j => issued[i] < issued[j]
    /\ \A p, q \in Placed(self) : p.binding.handle = q.binding.handle => p = q
    /\ \A p \in Placed(self) : \E i \in 1..Len(issued) : issued[i] = p.binding.handle

\* Two callbacks are bound, after a handle was unbound and the engine was
\* fed and reset.
C13_Witness ==
    /\ last.op = "bind"
    /\ last.result = None
    /\ Len(issued) = 2
    /\ Cardinality(Placed(self)) = 1
    /\ last.pre.feed_count = 0
    /\ accepted = 0

\* ----------------------------------------------------- states and transitions

\* The last call was add_state (add_transition); its arguments.
IsAddState == last.op = "add_state"
StateArg == last.tokens[1]
IsTerminalArg == last.payloads.items[1]
IsInitialArg == last.payloads.items[2]
WasState == StateArg \in DOMAIN last.pre.is_terminal
IsAddTransition == last.op = "add_transition"
ExitedArg == last.tokens[1]
EnteredArg == last.tokens[2]
KeyArg == <<last.tokens[1], last.tokens[3]>>
WasTransition == KeyArg \in DOMAIN last.pre.transitions

\* The states that had been added with is_initial=True when the last
\* add_state was called.
MarkedBefore == IF last.result = None THEN marked \ {StateArg} ELSE marked

\* C14: at most one state is ever added as the initial state and the
\* initial state, once set, stays that state; an add_state with
\* is_initial=True of a new state, called after one such call succeeded,
\* raises ValueError and registers nothing.
C14_OneInitialState ==
    /\ Cardinality(marked) <= 1
    /\ marked # {} => initial_state \in marked
    /\ (IsAddState /\ IsInitialArg /\ StateArg # Unhashable /\ ~WasState
            /\ MarkedBefore # {}) =>
        /\ last.result = "ValueError"
        /\ is_terminal = last.pre.is_terminal

\* C15: add_transition for a key (from, token) the table already has, the
\* wildcard key included, raises KeyError whatever target it names; the
\* table, and so the transition amount, and the callbacks bound to the
\* transitions stay as they were.
C15_DuplicateTransition ==
    IsAddTransition /\ WasTransition =>
        /\ last.result = "KeyError"
        /\ transitions = last.pre.transitions
        /\ transition_callbacks = last.pre.transition_callbacks

\* A second add_transition for a key that has a callback bound, naming
\* another registered target.
C15_Witness ==
    /\ IsAddTransition
    /\ WasTransition
    /\ EnteredArg \in DOMAIN is_terminal
    /\ EnteredArg # transitions[KeyArg]
    /\ transition_callbacks[KeyArg] # <<>>
    /\ last.result = "KeyError"

\* C16: every transition of the table leaves a registered state and enters
\* a registered state; add_transition with an unregistered state raises
\* KeyError and leaves the table as it was.
C16_RegisteredEnds ==
    /\ \A key \in DOMAIN transitions :
        /\ key[1] \in DOMAIN is_terminal
        /\ transitions[key] \in DOMAIN is_terminal
    /\ (IsAddTransition /\ (ExitedArg \notin DOMAIN last.pre.is_terminal
                            \/ EnteredArg \notin DOMAIN last.pre.is_terminal)) =>
        /\ last.result = "KeyError"
        /\ transitions = last.pre.transitions

\* add_transition from a registered state to an unregistered one, for a key
\* the table does not have.
C16_Witness ==
    /\ IsAddTransition
    /\ ExitedArg \in DOMAIN is_terminal
    /\ EnteredArg \notin DOMAIN is_terminal
    /\ ~WasTransition
    /\ last.result = "KeyError"

\* C17: add_state for a registered state raises KeyError, with
\* is_initial=True too, and leaves the terminal flags, the initial and the
\* current state and the enter and exit buckets as they were.
C17_DuplicateState ==
    IsAddState /\ WasState =>
        /\ last.result = "KeyError"
        /\ is_terminal = last.pre.is_terminal
        /\ initial_state = last.pre.initial_state
        /\ current_state = last.pre.current_state
        /\ enter_callbacks = last.pre.enter_callbacks
        /\ exit_callbacks = last.pre.exit_callbacks

\* A registered state with a callback bound is added again, with the other
\* terminal flag and as the initial state of an engine that has none.
C17_Witness ==
    /\ IsAddState
    /\ WasState
    /\ IsInitialArg
    /\ IsTerminalArg # is_terminal[StateArg]
    /\ last.pre.initial_state = None
    /\ enter_callbacks[StateArg] # <<>>
    /\ last.result = "KeyError"

\* C20: while no state has been added with is_initial=True, feed raises
\* RuntimeError for every token, the unhashable one included; the counters
\* keep their values and no callback is called.
C20_NoInitialState ==
    IsFeed /\ marked = {} =>
        /\ last.result = NoInitialState
        /\ feed_count = last.pre.feed_count
        /\ transition_count = last.pre.transition_count
        /\ Calls = <<>>

\* A token is fed that has a transition from the current state, with a
\* callback bound for every transition, and no state is initial.
C20_Witness ==
    /\ IsFeed
    /\ marked = {}
    /\ <<current_state, Fed>> \in DOMAIN transitions
    /\ always_callbacks # <<>>
    /\ last.result = NoInitialState

\* ---------------------------------------------------------------- pickling

\* The last call pickled the engine and unpickled it: last.pre is the engine
\* that was pickled, self the one unpickled.
IsRestore == last.op = "restore"

\* The token sequences fed after unpickling.
FeedSeqs == UNION {[1..n -> FeedTokens] : n \in 0..MaxLen}

SameFields(e, r) ==
    /\ r.current_state = e.current_state
    /\ r.feed_count = e.feed_count
    /\ r.transition_count = e.transition_count
    /\ r.is_terminal = e.is_terminal
    /\ r.transitions = e.transitions
    /\ r.initial_state = e.initial_state
    /\ r.raise_on_invalid_token = e.raise_on_invalid_token

\* Fed the same tokens one by one, e and r return or raise the same and
\* have the same current state and counters after every feed.
RECURSIVE SameRun(_, _, _)
SameRun(e, r, tokens) ==
    IF tokens = <<>> THEN TRUE
    ELSE LET fe == feed(e, Head(tokens), None)
             fr == feed(r, Head(tokens), None)
         IN /\ fr.result = fe.result
            /\ fr.sm.current_state = fe.sm.current_state
            /\ fr.sm.feed_count = fe.sm.feed_count
            /\ fr.sm.transition_count = fe.sm.transition_count
            /\ SameRun(fe.sm, fr.sm, Tail(tokens))

\* No callback bound on e raises or calls reset().
AllReturn(e) == \A p \in Placed(e) : p.binding.callback \in {"ok", None}

RECURSIVE CallsOf(_, _)
CallsOf(e, tokens) ==
    IF tokens = <<>> THEN <<>>
    ELSE LET f == feed(e, Head(tokens), None)
         IN f.calls \o CallsOf(f.sm, Tail(tokens))

\* C19: the unpickled engine has an empty enter and exit bucket for every
\* state, an empty bucket for every transition and empty global buckets; its
\* feeds call no callback; a bind to any of its states and transitions
\* succeeds.
C19_EmptyBuckets ==
    /\ IsRestore =>
        /\ enter_callbacks = [state \in DOMAIN is_terminal |-> <<>>]
        /\ exit_callbacks = [state \in DOMAIN is_terminal |-> <<>>]
        /\ transition_callbacks = [key \in DOMAIN transitions |-> <<>>]
        /\ Placed(self) = {}
        /\ \A tokens \in FeedSeqs : CallsOf(self, tokens) = <<>>
        /\ \A state \in DOMAIN is_terminal :
            /\ bind_callback_at_enter(self, state, "ok").result = None
            /\ bind_callback_at_exit(self, state, "ok").result = None
        /\ \A key \in DOMAIN transitions :
            bind_callback_at_transition(self, key[1], key[2], "ok").result = None
    /\ (IsFeed /\ issued = <<>>) => Calls = <<>>

\* An engine whose next feed would call callbacks is pickled and unpickled.
C19_Witness ==
    /\ IsRestore
    /\ feed_count > 0
    /\ feed(last.pre, "a", None).calls # <<>>
    /\ feed(self, "a", None).result = "True"

\* ------------------------------------------------------------------ events

\* C21: every callback called in the dispatch of a feed that moves from A
\* to B by the key K is given the same event: entered state B, exited state
\* A, token K, the terminal flag of B, the payload of the feed, and the
\* counters of the engine counting this feed.
C21_Event ==
    Dispatched =>
        \A i \in 1..Len(Calls) :
            Calls[i].event =
                [entered_state |-> B,
                 exited_state |-> A,
                 token |-> K,
                 entered_state_is_terminal |-> is_terminal[B],
                 feed_count |-> last.pre.feed_count + 1,
                 transition_count |-> last.pre.transition_count + 1,
                 payload |-> TheFeed.payload]

\* The second feed since the reset, after an unmatched one, takes a
\* transition into another, terminal state with a payload, and several
\* callbacks are called.
C21_Witness ==
    /\ Dispatched
    /\ Len(Calls) >= 3
    /\ A # B
    /\ is_terminal[B]
    /\ TheFeed.payload = "p"
    /\ last.pre.feed_count = 1
    /\ last.pre.transition_count = 0

\* --------------------------------------------------------------- scenarios

\* The last call fed a list of tokens to an engine that was in its initial
\* state with no feed counted.
FedFromStart ==
    /\ last.op \in {"feed_many", "feeds"}
    /\ last.pre.feed_count = 0
    /\ last.pre.current_state = initial_state

DigitValue(token) == CHOOSE d \in 0..(Len(Digits) - 1) : Digits[d + 1] = token

RECURSIVE SumOf(_)
SumOf(tokens) ==
    IF tokens = <<>> THEN 0 ELSE DigitValue(Head(tokens)) + SumOf(Tail(tokens))

AllDigits(tokens) == \A i \in 1..Len(tokens) : \E d \in 1..Len(Digits) : tokens[i] = Digits[d]

\* C22: on the machine of TestStateMachine, tokens 0, 1, 2 fed from the
\* initial state all return True and leave the state their sum mod 4;
\* [1,1,1,1] ends in the initial state 0; after [1,1,1,42] feed_count is 4,
\* transition_count is 3 and the last feed returned False.
C22_SumMod ==
    FedFromStart =>
        /\ AllDigits(last.tokens) =>
            /\ last.result = None
            /\ last.returned = [i \in 1..Len(last.tokens) |-> "True"]
            /\ current_state = StateAfter(SumOf(last.tokens), 0)
        /\ last.tokens = <<"1", "1", "1", "1">> =>
            /\ current_state = "0"
            /\ is_initial(self)
        /\ last.tokens = <<"1", "1", "1", NoDigit>> =>
            /\ feed_count = 4
            /\ transition_count = 3
            /\ last.returned[4] = "False"

\* [1,1,1,42] has been fed from the initial state.
C22_Witness ==
    /\ FedFromStart
    /\ last.tokens = <<"1", "1", "1", NoDigit>>
    /\ current_state = "3"

\* C23 as stated: after "omg!" has been fed to the demo machine from its
\* initial state, the current state is the terminal state g and
\* transition_count is 3.
C23_OmgBang ==
    FedFromStart /\ last.tokens = <<"o", "m", "g", "!">> =>
        /\ current_state = "g"
        /\ is_terminated(self)
        /\ transition_count = 3

\* C23, amended: after "omg" the current state is the terminal state g and
\* transition_count is 3; the "!" then takes the wildcard transition of g,
\* so after "omg!" the current state is x and transition_count is 4.
C23_OmgThenBack ==
    /\ FedFromStart /\ last.tokens = <<"o", "m", "g">> =>
        /\ current_state = "g"
        /\ is_terminated(self)
        /\ transition_count = 3
    /\ FedFromStart /\ last.tokens = <<"o", "m", "g", "!">> =>
        /\ last.returned = <<"True", "True", "True", "True">>
        /\ current_state = "x"
        /\ ~is_terminated(self)
        /\ transition_count = 4

\* "omg!" has been fed from the initial state.
C23_Witness ==
    /\ FedFromStart
    /\ last.tokens = <<"o", "m", "g", "!">>
    /\ feed_count = 4

\* ------------------------------------------------------------ current state

RECURSIVE FeedEach(_, _, _, _, _)
FeedEach(e, tokens, payloads, i, feeds) ==
    IF i > Len(tokens) THEN [sm |-> e, raised |-> None, feeds |-> feeds]
    ELSE LET f == feed(e, tokens[i], payloads[i])
         IN IF f.result \in {"True", "False"}
            THEN FeedEach(f.sm, tokens, payloads, i + 1, Append(feeds, FeedRecord(f)))
            ELSE [sm |-> f.sm, raised |-> f.result,
                  feeds |-> Append(feeds, FeedRecord(f))]

IsFeedMany == last.op = "feed_many"
SameLengths == last.payloads.is_none \/ Len(last.payloads.items) = Len(last.tokens)
EachPayload ==
    IF last.payloads.is_none
    THEN [i \in 1..Len(last.tokens) |-> None] ELSE last.payloads.items

\* C25: feed_many with as many payloads as tokens, or with no payloads
\* (None for every token), does what the feeds of its tokens and payloads,
\* called one by one in input order, do: same engine after it, same callbacks
\* called with the same events in the same order, and it returns the list
\* of their results (or raises what the first raising feed raises).
C25_SequentialFeeds ==
    IsFeedMany /\ SameLengths =>
        LET each == FeedEach(last.pre, last.tokens, EachPayload, 1, <<>>)
        IN /\ Is(each.sm)
           /\ last.feeds = each.feeds
           /\ last.result = each.raised
           /\ each.raised = None =>
                last.returned = [i \in 1..Len(last.tokens) |-> each.feeds[i].result]

\* Two different tokens with two different payloads: the first moves the
\* engine and calls callbacks, the second matches nothing.
C25_Witness ==
    /\ IsFeedMany
    /\ ~last.payloads.is_none
    /\ Len(last.tokens) = 2
    /\ Len(last.payloads.items) = 2
    /\ last.payloads.items[1] # last.payloads.items[2]
    /\ last.returned = <<"True", "False">>
    /\ last.feeds[1].calls # <<>>
    /\ last.pre.current_state # current_state

\* -------------------------------------------------------------------- reset

\* Engine e but for its current state and its two counters.
Frame(e) ==
    [e EXCEPT !.current_state = None, !.feed_count = 0, !.transition_count = 0]

\* C26: reset() leaves the states with their terminal flags, the initial
\* state, the transitions, every bucket with its handles and callbacks, the
\* handle counter and the raise_on_invalid_token flag as they were, called
\* by the client or by a callback during a dispatch; a feed reads nothing
\* but these fields, so it calls after a reset the callbacks bound before it.
C26_ResetFrame ==
    /\ last.op = "reset" => Frame(self) = Frame(last.pre)
    /\ (IsFeed /\ TheFeed.resets) => Frame(self) = Frame(last.pre)

\* The client resets an engine that was fed, has left its initial state and
\* has callbacks bound.
C26_Witness ==
    /\ last.op = "reset"
    /\ last.pre.feed_count > 0
    /\ last.pre.current_state # initial_state
    /\ always_callbacks # <<>>
    /\ next_handle > 0

\* --------------------------------------------------- a callback that raises

\* C27 as stated: when a callback raises during the dispatch of a matched
\* feed, the current state is still the state the feed was called in and
\* feed_count and transition_count are each one more than before the feed.
C27_RaisedCounted ==
    (IsFeed /\ last.result = CallbackError) =>
        /\ current_state = A
        /\ feed_count = last.pre.feed_count + 1
        /\ transition_count = last.pre.transition_count + 1

\* C27 as amended: when a callback raises during the dispatch of a matched
\* feed and no callback called before it called reset(), the current state
\* is still the state the feed was called in, feed_count and
\* transition_count are each one more than before the feed and nothing else
\* of the engine has changed; when a callback called before it called
\* reset(), the engine is as reset() left it, in its initial state with both
\* counters at 0.
C27_RaisedCountedUnlessReset ==
    (IsFeed /\ last.result = CallbackError) =>
        /\ Frame(self) = Frame(last.pre)
        /\ ~TheFeed.resets =>
              self = [last.pre EXCEPT !.feed_count = @ + 1,
                                      !.transition_count = @ + 1]
        /\ TheFeed.resets => self = reset(last.pre)

\* A callback raised in the dispatch of a transition from a state other
\* than the initial one to another state, and no callback called reset().
C27_Witness ==
    /\ IsFeed /\ last.result = CallbackError
    /\ ~TheFeed.resets
    /\ A # last.pre.initial_state
    /\ B # A
    /\ self = [last.pre EXCEPT !.feed_count = @ + 1,
                               !.transition_count = @ + 1]

\* ------------------------------------------------- reset() inside a callback

\* C28: a feed that returns True leaves the current state at the target it
\* resolved before the dispatch, whatever its callbacks did; when one of
\* them called reset(), the state reset() set is overwritten by that target
\* and feed_count and transition_count are both 0, and otherwise each is
\* one more than before the feed.
C28_TargetAfterReset ==
    (IsFeed /\ last.result = "True") =>
        /\ current_state = last.pre.transitions[<<last.pre.current_state, K>>]
        /\ IF TheFeed.resets
           THEN feed_count = 0 /\ transition_count = 0
           ELSE /\ feed_count = last.pre.feed_count + 1
                /\ transition_count = last.pre.transition_count + 1

\* A feed to an engine fed before returned True, a callback of its dispatch
\* called reset(), and the target is not the initial state.
C28_Witness ==
    /\ IsFeed /\ last.result = "True"
    /\ TheFeed.resets
    /\ last.pre.feed_count > 0
    /\ B # initial_state
    /\ current_state = B
    /\ feed_count = 0

\* ----------------------------------------------------------------- counters

\* An engine with a state and a transition but no initial state.
Unmarked(raise_flag) ==
    LET e1 == add_state(New(raise_flag), "x", FALSE, FALSE).sm
    IN add_transition(e1, "x", "x", "a").sm

\* The built engines whose tables have no transition to None, and the
\* engines without an initial state.
InitCount ==
    /\ \/ \E raise_flag \in BOOLEAN, table \in Tables, callbacks \in Callbacks :
            /\ \A i \in 1..Len(TableKeys) : table[i] # None
            /\ callbacks = Plain \/ (table = FullTable /\ ~raise_flag)
            /\ Is(Built(raise_flag, FALSE, TRUE, table, callbacks))
       \/ \E raise_flag \in BOOLEAN : Is(Unmarked(raise_flag))
    /\ last = NoCall
    /\ accepted = 0
    /\ matched = 0
    /\ issued = [i \in 1..next_handle |-> i - 1]
    /\ marked = IF initial_state = None THEN {} ELSE {"x"}

NextCount == Feed \/ FeedMany \/ Reset

SpecCount == InitCount /\ [][NextCount]_vars

\* One of the feeds of the call had a callback call reset().
SomeReset == \E i \in 1..Len(last.feeds) : last.feeds[i].resets

\* C29: under feed, feed_many and reset, failed feeds included,
\* 0 <= transition_count <= feed_count; and a feed or a feed_many in which
\* no callback calls reset() leaves neither counter less than it was; on an
\* engine without an initial state a feed raises and both counters stay 0.
C29_CountersOrdered ==
    /\ 0 <= transition_count
    /\ transition_count <= feed_count
    /\ (last.op \in {"feed", "feed_many"} /\ ~SomeReset) =>
          /\ feed_count >= last.pre.feed_count
          /\ transition_count >= last.pre.transition_count
    /\ (last.op \in {"feed", "feed_many"} /\ last.pre.initial_state = None) =>
          /\ last.op = "feed" => last.result = NoInitialState
          /\ feed_count = 0
          /\ transition_count = 0

\* A feed_many on an engine fed before, in which one feed matched and
\* another failed with InvalidToken, leaves fewer transitions than feeds.
C29_Witness ==
    /\ last.op = "feed_many"
    /\ ~SomeReset
    /\ last.result = InvalidToken
    /\ Len(last.feeds) = 2
    /\ last.feeds[1].result = "True"
    /\ 0 < transition_count
    /\ transition_count < feed_count
====
